---- MODULE Spec2Model ----
(***************************************************************************)
(* Model of the bitcoin-block-verify programs:                             *)
(*   - methods/src/main.rs  : the dispatcher (resolve a guest, prove it    *)
(*                            locally or through the Bonsai REST service)  *)
(*   - bonsai-sdk/src/lib.rs: the REST client used by prove_remote         *)
(*   - apps/src/main.rs     : the apps host (collect headers, prove,       *)
(*                            decode and print the journal)                *)
(*   - methods/guest/src/bin/bitcoin_block_verify.rs : the guest (read the *)
(*                            headers, validate the chain, commit)         *)
(* One run of one binary is one behaviour; the remote service, the local   *)
(* executor and the prover are the environment and answer                  *)
(* nondeterministically.  Option<T> is modelled as a sequence of length    *)
(* 0 (None) or 1 (Some).  Strings the code inspects character by character *)
(* are sequences of one-character strings.                                 *)
(***************************************************************************)
EXTENDS Integers, Sequences, FiniteSets, TLC

(***************************************************************************)
(* Bounds of the model.                                                    *)
(***************************************************************************)
\* At most this many status queries are answered in one run.
MaxPolls == 3
\* The remote service hands out identifiers numbered 1..MaxUuid.
MaxUuid == 2
\* Most header records in a chain given to the packager on its own.
MaxChain == 3

(***************************************************************************)
(* Program constants.                                                      *)
(***************************************************************************)
\* Duration::from_secs(15) in the polling loop.
PollSleepSecs == 15
\* [u8; 32]: the width of an image id in bytes.
IdBytes == 32
\* &data[..80]: the bytes of a block that are its header.
HeaderLen == 80
\* let begin = 10; let end = 15; in the apps host.
BeginHeight == 10
EndHeight == 15

(***************************************************************************)
(* Characters and strings.                                                 *)
(***************************************************************************)
LowerLetters == <<"a","b","c","d","e","f","g","h","i","j","k","l","m",
                  "n","o","p","q","r","s","t","u","v","w","x","y","z">>

UpperLetters == <<"A","B","C","D","E","F","G","H","I","J","K","L","M",
                  "N","O","P","Q","R","S","T","U","V","W","X","Y","Z">>

HexDigits == <<"0","1","2","3","4","5","6","7","8","9","a","b","c","d","e","f">>

Range(s) == { s[i] : i \in DOMAIN s }

IndexOf(c, s) == CHOOSE i \in DOMAIN s : s[i] = c

ToUpperChar(c) ==
  IF c \in Range(LowerLetters) THEN UpperLetters[IndexOf(c, LowerLetters)] ELSE c

ToLowerChar(c) ==
  IF c \in Range(UpperLetters) THEN LowerLetters[IndexOf(c, UpperLetters)] ELSE c

\* str::to_uppercase / str::to_lowercase on ASCII text.
ToUppercase(s) == [i \in DOMAIN s |-> ToUpperChar(s[i])]

ToLowercase(s) == [i \in DOMAIN s |-> ToLowerChar(s[i])]

\* str::trim_start_matches("0x"): every leading repetition of the pattern goes.
RECURSIVE TrimStart0x(_)
TrimStart0x(s) ==
  IF Len(s) >= 2 /\ s[1] = "0" /\ s[2] = "x"
    THEN TrimStart0x(SubSeq(s, 3, Len(s)))
    ELSE s

IsHexChar(c) == ToLowerChar(c) \in Range(HexDigits)

HexVal(c) == IndexOf(ToLowerChar(c), HexDigits) - 1

\* hex::decode: Err on odd length or on a character that is no hex digit,
\* otherwise one byte per pair of digits.  Result<Vec<u8>> as Option.
HexDecode(s) ==
  IF Len(s) % 2 # 0 \/ \E i \in DOMAIN s : ~IsHexChar(s[i])
    THEN << >>
    ELSE << [i \in 1..(Len(s) \div 2) |->
               16 * HexVal(s[2 * i - 1]) + HexVal(s[2 * i])] >>

\* hex::encode: two lower-case digits per byte.
HexEncode(bytes) ==
  [i \in 1..(2 * Len(bytes)) |->
     IF i % 2 = 1 THEN HexDigits[(bytes[(i + 1) \div 2] \div 16) + 1]
                  ELSE HexDigits[(bytes[i \div 2] % 16) + 1]]

\* u32::to_le_bytes
ToLeBytes(w) ==
  << w % 256, (w \div 256) % 256, (w \div 65536) % 256, (w \div 16777216) % 256 >>

\* Mutant of CastId: the bytes of each word in big-endian order.
CastId_BigEndian(words) ==
  [i \in 1..(4 * Len(words)) |-> ToLeBytes(words[((i - 1) \div 4) + 1])[4 - ((i - 1) % 4)]]

\* bytemuck::cast::<[u32; 8], [u8; 32]> on a little-endian target.
CastId(words) ==
  [i \in 1..(4 * Len(words)) |-> ToLeBytes(words[((i - 1) \div 4) + 1])[((i - 1) % 4) + 1]]

ZeroId == [i \in 1..IdBytes |-> 0]

\* byte_vector.try_into().unwrap_or([0u8; 32]) after hex::decode, Err => [0u8; 32]
PotentialGuestImageId(guest_binary_arg) ==
  LET d == HexDecode(TrimStart0x(ToLowercase(guest_binary_arg)))
  IN  IF d = << >> THEN ZeroId
      ELSE IF Len(d[1]) = IdBytes THEN d[1] ELSE ZeroId

\* u64 little-endian length prefix followed by the bytes: bincode::serialize(&Vec<u8>).
U64LeBytes(n) ==
  [i \in 1..8 |-> IF i = 1 THEN n % 256 ELSE IF i = 2 THEN (n \div 256) % 256 ELSE 0]

BincodeSerialize(bytes) == U64LeBytes(Len(bytes)) \o bytes

(***************************************************************************)
(* The guest registry (GUEST_LIST).                                        *)
(***************************************************************************)
GUEST_LIST ==
  << [name |-> <<"B","T","C">>,
      image_id |-> <<16909060, 2, 3, 4, 5, 6, 7, 8>>,
      elf |-> "elf_btc", path |-> "path_btc"],
     [name |-> <<"F","A","C","E">>,
      image_id |-> <<84281096, 1, 1, 1, 1, 1, 1, 255>>,
      elf |-> "elf_face", path |-> "path_face"] >>

\* Mutant of EntryMatches: the name needs only to start with the query.
EntryMatches_NamePrefix(entry, guest_binary_arg) ==
  \/ /\ Len(guest_binary_arg) <= Len(entry.name)
     /\ SubSeq(entry.name, 1, Len(guest_binary_arg)) = ToUppercase(guest_binary_arg)
  \/ CastId(entry.image_id) = PotentialGuestImageId(guest_binary_arg)

EntryMatches(entry, guest_binary_arg) ==
  \/ entry.name = ToUppercase(guest_binary_arg)
  \/ CastId(entry.image_id) = PotentialGuestImageId(guest_binary_arg)

\* Mutant of FindGuest: a query that matches nothing falls back to the first entry.
FindGuest_DefaultsToFirst(guest_list, guest_binary_arg) ==
  LET hits == { i \in DOMAIN guest_list : EntryMatches(guest_list[i], guest_binary_arg) }
  IN  IF hits = {} THEN << 1 >>
      ELSE << CHOOSE i \in hits : \A j \in hits : i <= j >>

\* GUEST_LIST.iter().find(..): the first matching entry of the registry the
\* binary was built with, as Option of its index.
FindGuest(guest_list, guest_binary_arg) ==
  LET hits == { i \in DOMAIN guest_list : EntryMatches(guest_list[i], guest_binary_arg) }
  IN  IF hits = {} THEN << >>
      ELSE << CHOOSE i \in hits : \A j \in hits : i <= j >>

\* A registry whose names are prefixes of one another.
GUEST_LIST_NESTED ==
  << [name |-> <<"A">>,
      image_id |-> <<1, 0, 0, 0, 0, 0, 0, 0>>,
      elf |-> "elf_a", path |-> "path_a"],
     [name |-> <<"A","B">>,
      image_id |-> <<0, 0, 0, 0, 0, 0, 0, 1>>,
      elf |-> "elf_ab", path |-> "path_ab"],
     [name |-> <<"A","B","C","D">>,
      image_id |-> <<16777215, 0, 0, 0, 0, 0, 0, 0>>,
      elf |-> "elf_abcd", path |-> "path_abcd"] >>

\* A registry with an entry whose image id is all zero.
GUEST_LIST_ZERO ==
  << [name |-> <<"B","T","C">>,
      image_id |-> <<16909060, 2, 3, 4, 5, 6, 7, 8>>,
      elf |-> "elf_btc", path |-> "path_btc"],
     [name |-> <<"Z","E","R","O">>,
      image_id |-> <<0, 0, 0, 0, 0, 0, 0, 0>>,
      elf |-> "elf_zero", path |-> "path_zero"] >>

\* Registries whose image ids are digests.
Registries == { GUEST_LIST, GUEST_LIST_NESTED }

\* Every other letter in upper case.
MixedCase(s) ==
  [i \in DOMAIN s |-> IF i % 2 = 0 THEN ToUpperChar(s[i]) ELSE ToLowerChar(s[i])]

\* Command-line queries about one entry: its name and its identity, and
\* texts that are close to them.
QueriesAbout(entry) ==
  LET name == entry.name
      id == HexEncode(CastId(entry.image_id))
  IN  { ToLowercase(name), name, MixedCase(name),
        SubSeq(name, 1, Len(name) - 1),
        name \o <<"D">>,
        <<"x">> \o name,
        <<"0","x">> \o name,
        id,
        ToUppercase(id),
        <<"0","x">> \o id,
        <<"0","X">> \o MixedCase(id),
        <<"0","x","0","x">> \o id,
        <<"x">> \o id,
        SubSeq(id, 1, Len(id) - 2),
        SubSeq(id, 1, Len(id) - 1),
        id \o <<"0","0">>,
        SubSeq(id, 1, Len(id) - 1) \o <<"9">> }

ResolveQueries(guest_list) ==
  UNION { QueriesAbout(guest_list[i]) : i \in DOMAIN guest_list }
    \cup { << >>, <<"n","o","p","e">>, <<"0","x">>, <<"z","z">>, <<"f","a">>,
           HexEncode(ZeroId) }

(***************************************************************************)
(* Environment variables, receipts and the values the environment answers   *)
(* with.                                                                     *)
(***************************************************************************)
\* The process environment entry of a variable, as std::env::var sees it.
EnvAbsent == [state |-> "absent", value |-> << >>]

EnvNotUnicode == [state |-> "notunicode", value |-> << >>]

EnvSet(chars) == [state |-> "unicode", value |-> chars]

\* std::env::var(..).is_ok(): the variable is set and holds valid Unicode.
EnvVarIsOk(v) == v.state = "unicode"

\* str::split('|').collect::<Vec<&str>>()
RECURSIVE SplitBar(_)
SplitBar(s) ==
  IF \A i \in DOMAIN s : s[i] # "|" THEN << s >>
  ELSE LET k == CHOOSE i \in DOMAIN s : s[i] = "|" /\ \A j \in 1..(i - 1) : s[j] # "|"
       IN  << SubSeq(s, 1, k - 1) >> \o SplitBar(SubSeq(s, k + 1, Len(s)))

EndpointValues ==
  { EnvAbsent, EnvNotUnicode,
    EnvSet(<<"u","|","k">>), EnvSet(<<"u">>), EnvSet(<<"u","|","k","|","z">>) }

ProveLocallyValues == { EnvAbsent, EnvSet(<<"1">>) }

GuestBinaryArgs ==
  { <<"b","t","c">>,
    <<"0","x">> \o HexEncode(CastId(GUEST_LIST[2].image_id)),
    <<"n","o","p","e">> }

\* Option<String>: the second positional argument.
InputArgs ==
  { << >>, << <<"0","x","0","1","0","2">> >>, << <<"0","x","z","z">> >>, << <<"0">> >> }

\* Journals a guest run or a receipt may carry.
Journals == { <<0, 15>>, <<171>> }

\* SessionRollupReceipt: a journal and the binding of it to an image id.
MkReceipt(image_id, journal, seal_ok, inner) ==
  [image_id |-> image_id, journal |-> journal, seal_ok |-> seal_ok, inner |-> inner]

\* Receipts the remote service may serve.
ReceiptPool ==
  { MkReceipt(GUEST_LIST[1].image_id, <<0, 15>>, TRUE, "Rollup"),
    MkReceipt(GUEST_LIST[2].image_id, <<171>>, TRUE, "Rollup"),
    MkReceipt(GUEST_LIST[1].image_id, <<171>>, FALSE, "Rollup") }

\* receipt.verify(image_id): the seal is sound and bound to image_id.
ReceiptVerifies(receipt, image_id) ==
  receipt.seal_ok /\ receipt.image_id = image_id

\* Bodies a GET of the receipt locator may answer with.
DownloadBodies ==
  { [fmt |-> "bincode", receipt |-> <<r>>] : r \in ReceiptPool }
    \cup { [fmt |-> "text", receipt |-> << >>] }

\* bincode::deserialize::<SessionRollupReceipt>(&receipt_buf), Result as Option.
BincodeDeserializeReceipt(buf) ==
  IF buf.fmt = "bincode" THEN buf.receipt ELSE << >>

Uuids == 1..MaxUuid

StatusStrings == {"RUNNING", "SUCCEEDED", "FAILED", "TIMED_OUT", "ABORTED", "OTHER"}

\* Option<String> receipt_url of SessionStatusRes, as the service may send it
\* along with status st.
ReceiptUrls(st) ==
  IF st = "SUCCEEDED"
    THEN { << >>, << <<"receipt", "a">> >>, << <<"receipt", "b">> >> }
    ELSE { << >>, << <<"receipt", "a">> >> }

(***************************************************************************)
(* State.                                                                  *)
(***************************************************************************)
VARIABLES
  binary,            \* which program this run is: "methods", "apps" or "guest"
  registry,          \* the GUEST_LIST the binary was built with
  pc,                \* position of the run in its main
  guest_binary,      \* args.guest_binary
  input_arg,         \* args.input
  env_endpoint,      \* BONSAI_ENDPOINT in the process environment
  env_prove_locally, \* PROVE_LOCALLY in the process environment
  backend,           \* the backend main has called: "none", "local" or "remote"
  guest_entry,       \* Option: index of the resolved GUEST_LIST entry
  input,             \* the serialized input handed to a backend
  client,            \* Option: bonsai_sdk::Client {url, key}
  upload_data,       \* Option: UploadRes {url, uuid} of the upload in progress
  img_id,            \* Option: uuid returned by the image upload
  input_id,          \* Option: uuid returned by the input upload
  session,           \* Option: SessionId.uuid
  res,               \* Option: the last SessionStatusRes
  receipt_buf,       \* Option: the downloaded bytes
  receipt,           \* Option: the receipt in hand
  verified,          \* "none", "ok" or "failed": outcome of receipt.verify
  journal_out,       \* Option: the journal extracted from the receipt or session
  output_bytes,      \* Option: output_bytes of the dispatcher's main
  height,            \* apps host: the next block height to fetch
  headers,           \* apps host: the header bytes collected so far
  decoded,           \* apps host: Option, the (height, hash) decoded from the journal
  supplied,          \* the height and the header records given to the packager
  env_input,         \* Option: the input buffer of the ExecutorEnv
  guest_data,        \* guest: Option, the (u64, Vec<u8>) it has read
  guest_journal,     \* guest: Option, the journal bytes it has committed
  guest_exit,        \* guest: how its run ended, if it has
  stdout,            \* everything printed to standard output, in order
  trace,             \* every external operation issued, in order
  exit               \* how the run ended, if it has

vars == << binary, registry, pc, guest_binary, input_arg, env_endpoint, env_prove_locally,
           backend, guest_entry, input, client, upload_data, img_id, input_id, session, res,
           receipt_buf, receipt, verified, journal_out, output_bytes, height,
           headers, decoded, supplied, env_input, guest_data, guest_journal,
           guest_exit, stdout, trace, exit >>

\* Variables of prove_remote and of the backends.
backendVars == << client, upload_data, img_id, input_id, session, res,
                  receipt_buf, receipt, verified, journal_out >>

argVars == << binary, registry, guest_binary, input_arg, env_endpoint, env_prove_locally >>

\* Variables of the packaged input and of the guest run.
guestVars == << supplied, env_input, guest_data, guest_journal, guest_exit >>

\* Variables only the apps host writes.
appsVars == << height, headers, decoded >>

\* Variables only the dispatcher writes.
methodsVars == << backend, guest_entry, input, client, upload_data, img_id, input_id, session,
                  res, receipt_buf, journal_out, output_bytes >>

\* One printed item: a label, a number (Option) and hex text.
Printed(label, num, hex) == [label |-> label, num |-> num, hex |-> hex]

Running == [kind |-> "running", msg |-> << >>]

Panic(msg) == [kind |-> "panic", msg |-> msg]

ExitOk == [kind |-> "ok", msg |-> << >>]

\* One external operation: a request, a sleep, a file open or a local execution.
\*   url   the request's target         what/data  what is sent
\*   res   how the operation ended      info       status text of the answer
\*   ret   uuid the answer carries      loc        locator the answer carries
Event(op, url, what, data, result, info, ret, loc) ==
  [op |-> op, url |-> url, what |-> what, data |-> data,
   res |-> result, info |-> info, ret |-> ret, loc |-> loc]

\* What the apps host packages: the height `end` and no header yet.
AppsSupplied == [height |-> U64LeBytes(EndHeight), records |-> << >>]

\* The state of a run before its main has done anything.
InitState ==
  /\ backend = "none"
  /\ guest_entry = << >>
  /\ input = << >>
  /\ client = << >>
  /\ upload_data = << >>
  /\ img_id = << >>
  /\ input_id = << >>
  /\ session = << >>
  /\ res = << >>
  /\ receipt_buf = << >>
  /\ receipt = << >>
  /\ verified = "none"
  /\ journal_out = << >>
  /\ output_bytes = << >>
  /\ height = BeginHeight
  /\ headers = << >>
  /\ decoded = << >>
  /\ env_input = << >>
  /\ guest_data = << >>
  /\ guest_journal = << >>
  /\ guest_exit = Running
  /\ stdout = << >>
  /\ trace = << >>
  /\ exit = Running

Init ==
  /\ binary \in {"methods", "apps"}
  /\ registry = GUEST_LIST
  /\ pc = "start"
  /\ guest_binary \in (IF binary = "methods" THEN GuestBinaryArgs ELSE { << >> })
  /\ input_arg \in (IF binary = "methods" THEN InputArgs ELSE { << >> })
  /\ env_endpoint \in (IF binary = "methods" THEN EndpointValues ELSE { EnvAbsent })
  /\ env_prove_locally \in (IF binary = "methods" THEN ProveLocallyValues ELSE { EnvAbsent })
  /\ supplied = AppsSupplied
  /\ InitState

\* A panic (or an Err unwrapped by expect) ends the run; nothing else changes.
Abort(msg) ==
  /\ pc' = "panicked"
  /\ exit' = Panic(msg)

(***************************************************************************)
(* methods/src/main.rs: main                                               *)
(***************************************************************************)
\* lines 83-94: search GUEST_LIST for the requested binary
Main_Resolve ==
  /\ binary = "methods" /\ pc = "start"
  /\ LET found == FindGuest(registry, guest_binary)
     IN  IF found = << >>
           THEN /\ Abort(<<"Unknown guest binary">>)
                /\ UNCHANGED guest_entry
           ELSE /\ guest_entry' = found
                /\ pc' = "resolved"
                /\ UNCHANGED exit
  /\ UNCHANGED << argVars, guestVars, appsVars, backend, input, backendVars, output_bytes, stdout, trace >>

\* line 108: no input, the output is the image id of the entry
Main_NoInput ==
  /\ binary = "methods" /\ pc = "resolved"
  /\ input_arg = << >>
  /\ output_bytes' = << CastId(registry[guest_entry[1]].image_id) >>
  /\ pc' = "print"
  /\ UNCHANGED << argVars, guestVars, appsVars, backend, guest_entry, input, backendVars, stdout, trace, exit >>

\* line 102: the backend main calls, by BONSAI_ENDPOINT
BackendFor(endpoint) == IF EnvVarIsOk(endpoint) THEN "remote" ELSE "local"

\* lines 98-106: decode and serialize the input, choose the backend
Main_Input ==
  /\ binary = "methods" /\ pc = "resolved"
  /\ input_arg # << >>
  /\ LET arg == input_arg[1]
         bytes == IF Len(arg) < 2 THEN << >> ELSE HexDecode(SubSeq(arg, 3, Len(arg)))
     IN  IF Len(arg) < 2
           THEN /\ Abort(<<"byte index 2 is out of bounds">>)
                /\ UNCHANGED << input, backend >>
           ELSE IF bytes = << >>
             THEN /\ Abort(<<"Failed to decode image id">>)
                  /\ UNCHANGED << input, backend >>
             ELSE /\ input' = << BincodeSerialize(bytes[1]) >>
                  /\ backend' = BackendFor(env_endpoint)
                  /\ pc' = backend'
                  /\ UNCHANGED exit
  /\ UNCHANGED << argVars, guestVars, appsVars, guest_entry, backendVars, output_bytes, stdout, trace >>

\* lines 110-112: print the hex encoding of the output and flush
Main_Print ==
  /\ binary = "methods" /\ pc = "print"
  /\ stdout' = Append(stdout, Printed("", << >>, HexEncode(output_bytes[1])))
  /\ pc' = "done"
  /\ exit' = ExitOk
  /\ UNCHANGED << argVars, guestVars, appsVars, backend, guest_entry, input, backendVars, output_bytes, trace >>

(***************************************************************************)
(* methods/src/main.rs: prove_locally                                      *)
(***************************************************************************)
\* An Err of prove_remote reaches main's expect and panics there.
RemoteErr(msg) == <<"Failed to run proof with bonsai">> \o msg

\* lines 35-40 and 45: build the executor, run the guest, take session.journal
Local_Execute ==
  /\ binary = "methods" /\ pc = "local"
  /\ \E outcome \in {"elf_err", "run_err", "ok"}, j \in Journals :
       LET ev == Event("EXEC", << >>, registry[guest_entry[1]].elf, input[1],
                       outcome, "", << >>, << >>)
       IN  CASE outcome = "elf_err" ->
                  /\ Abort(<<"Failed to instantiate executor">>)
                  /\ UNCHANGED << trace, journal_out, output_bytes >>
             [] outcome = "run_err" ->
                  /\ trace' = Append(trace, ev)
                  /\ Abort(<<"Failed to run executor">>)
                  /\ UNCHANGED << journal_out, output_bytes >>
             [] outcome = "ok" ->
                  /\ trace' = Append(trace, ev)
                  /\ journal_out' = << j >>
                  /\ IF EnvVarIsOk(env_prove_locally)
                       THEN pc' = "local_prove" /\ UNCHANGED output_bytes
                       ELSE pc' = "print" /\ output_bytes' = << j >>
                  /\ UNCHANGED exit
  /\ UNCHANGED << argVars, guestVars, appsVars, backend, guest_entry, input, client, upload_data, img_id, input_id,
                  session, res, receipt_buf, receipt, verified, stdout >>

\* lines 42-45: PROVE_LOCALLY is set, prove the session and drop the receipt
Local_Prove ==
  /\ binary = "methods" /\ pc = "local_prove"
  /\ \E outcome \in {"prove_err", "ok"} :
       /\ trace' = Append(trace, Event("PROVE", << >>, registry[guest_entry[1]].elf,
                                       << >>, outcome, "", << >>, << >>))
       /\ IF outcome = "ok"
            THEN /\ output_bytes' = journal_out
                 /\ pc' = "print"
                 /\ UNCHANGED exit
            ELSE /\ Abort(<<"Failed to prove session">>)
                 /\ UNCHANGED output_bytes
  /\ UNCHANGED << argVars, guestVars, appsVars, backend, guest_entry, input, backendVars, stdout >>

(***************************************************************************)
(* bonsai-sdk/src/lib.rs: Client, SessionId                                *)
(***************************************************************************)
\* The pre-signed upload location the service hands out with uuid id.
PresignedUrl(id) == <<"presigned", id>>

\* Mutant of ClientFromEnv: the parts after the second are ignored.
ClientFromEnv_AtLeastTwoParts(v, built) ==
  IF ~EnvVarIsOk(v) THEN << >>
  ELSE LET parts == SplitBar(v.value)
       IN  IF Len(parts) < 2 THEN << >>
           ELSE IF ~built THEN << >>
           ELSE << [url |-> parts[1], key |-> parts[2]] >>

\* Client::from_env, lines 110-125: Result<Client> as Option, given the outcome of
\* construct_req_client.
ClientFromEnv(v, built) ==
  IF ~EnvVarIsOk(v) THEN << >>
  ELSE LET parts == SplitBar(v.value)
       IN  IF Len(parts) # 2 THEN << >>
           ELSE IF ~built THEN << >>
           ELSE << [url |-> parts[1], key |-> parts[2]] >>

\* Client::get_upload_url, lines 134-148
GetUploadUrl(route, okpc) ==
  \E outcome \in {"senderr", "non2xx", "badjson", "ok"}, id \in Uuids :
    /\ trace' = Append(trace,
         Event("GET", <<client[1].url, route, "upload">>, "", << >>, outcome, "",
               IF outcome = "ok" THEN << id >> ELSE << >>,
               IF outcome = "ok" THEN << PresignedUrl(id) >> ELSE << >>))
    /\ IF outcome = "ok"
         THEN /\ upload_data' = << [url |-> PresignedUrl(id), uuid |-> id] >>
              /\ pc' = okpc
              /\ UNCHANGED exit
         ELSE /\ Abort(RemoteErr(<<"get_upload_url", route, outcome>>))
              /\ UNCHANGED upload_data

\* Mutant of PutData: the answer's status is not looked at, so a failed PUT goes on.
PutData_IgnoresFailure(what, data, okpc) ==
  \E outcome \in {"senderr", "non2xx", "ok"} :
    /\ trace' = Append(trace,
         Event("PUT", upload_data[1].url, what, data, outcome, "", << >>, << >>))
    /\ pc' = okpc
    /\ UNCHANGED exit

\* Client::put_data, lines 151-163
PutData(what, data, okpc) ==
  \E outcome \in {"senderr", "non2xx", "ok"} :
    /\ trace' = Append(trace,
         Event("PUT", upload_data[1].url, what, data, outcome, "", << >>, << >>))
    /\ IF outcome = "ok"
         THEN pc' = okpc /\ UNCHANGED exit
         ELSE Abort(RemoteErr(<<"put_data", outcome>>))

\* Mutant of StatusBranch: RUNNING polls again at once, without the sleep.
StatusBranch_NoSleep(r) ==
  IF r.status = "RUNNING" THEN "poll"
  ELSE IF r.status = "SUCCEEDED"
    THEN (IF r.receipt_url = << >> THEN "missing_receipt" ELSE "download")
    ELSE "workflow_exited"

\* Mutant of StatusBranch: SUCCEEDED without a locator is taken as still running.
StatusBranch_MissingKeepsPolling(r) ==
  IF r.status = "RUNNING" THEN "sleep"
  ELSE IF r.status = "SUCCEEDED"
    THEN (IF r.receipt_url = << >> THEN "sleep" ELSE "download")
    ELSE "workflow_exited"

\* Mutant of StatusBranch: only SUCCEEDED ends the loop, every other status polls on.
StatusBranch_FailureKeepsPolling(r) ==
  IF r.status = "SUCCEEDED"
    THEN (IF r.receipt_url = << >> THEN "missing_receipt" ELSE "download")
    ELSE "sleep"

\* Mutant of StatusBranch: a second RUNNING answer ends the loop with an error.
StatusBranch_PollLimit(r) ==
  IF r.status = "RUNNING"
    THEN (IF Len(SelectSeq(trace, LAMBDA e : e.op = "GET" /\ Len(e.url) = 4)) >= 1
            THEN "workflow_exited" ELSE "sleep")
  ELSE IF r.status = "SUCCEEDED"
    THEN (IF r.receipt_url = << >> THEN "missing_receipt" ELSE "download")
    ELSE "workflow_exited"

\* Where prove_remote goes on a status answer, lines 58-75: on to the sleep, on to
\* the download, or out with an error.
StatusBranch(r) ==
  IF r.status = "RUNNING" THEN "sleep"
  ELSE IF r.status = "SUCCEEDED"
    THEN (IF r.receipt_url = << >> THEN "missing_receipt" ELSE "download")
    ELSE "workflow_exited"

StatusQueries == SelectSeq(trace, LAMBDA e : e.op = "GET" /\ Len(e.url) = 4)

(***************************************************************************)
(* methods/src/main.rs: prove_remote                                       *)
(***************************************************************************)
\* lines 49-50
Remote_FromEnv ==
  /\ binary = "methods" /\ pc = "remote"
  /\ \E built \in BOOLEAN :
       LET c == ClientFromEnv(env_endpoint, built)
       IN  IF c = << >>
             THEN /\ Abort(RemoteErr(<<"Failed to initialize bonsai from env vars">>))
                  /\ UNCHANGED client
             ELSE /\ client' = c
                  /\ pc' = "img_url"
                  /\ UNCHANGED exit
  /\ UNCHANGED << argVars, guestVars, appsVars, backend, guest_entry, input, upload_data, img_id, input_id, session,
                  res, receipt_buf, receipt, verified, journal_out, output_bytes,
                  stdout, trace >>

\* line 52, lib.rs line 176: upload_img_file asks for the image's upload location
Remote_ImgUploadUrl ==
  /\ binary = "methods" /\ pc = "img_url"
  /\ GetUploadUrl("images", "img_open")
  /\ UNCHANGED << argVars, guestVars, appsVars, backend, guest_entry, input, client, img_id, input_id, session, res,
                  receipt_buf, receipt, verified, journal_out, output_bytes, stdout >>

\* lib.rs line 178: upload_img_file opens the ELF file
Remote_ImgOpen ==
  /\ binary = "methods" /\ pc = "img_open"
  /\ \E outcome \in {"ok", "open_err"} :
       /\ trace' = Append(trace, Event("OPEN", << >>, registry[guest_entry[1]].path,
                                       << >>, outcome, "", << >>, << >>))
       /\ IF outcome = "ok"
            THEN pc' = "img_put" /\ UNCHANGED exit
            ELSE Abort(RemoteErr(<<"Unable to open supplied image file">>))
  /\ UNCHANGED << argVars, guestVars, appsVars, backend, guest_entry, input, backendVars, output_bytes, stdout >>

\* lib.rs lines 179-181: upload_img_file PUTs the file and returns the uuid
Remote_ImgPut ==
  /\ binary = "methods" /\ pc = "img_put"
  /\ PutData(registry[guest_entry[1]].path, << >>, "input_url")
  /\ img_id' = IF pc' = "input_url" THEN << upload_data[1].uuid >> ELSE img_id
  /\ UNCHANGED << argVars, guestVars, appsVars, backend, guest_entry, input, client, upload_data, input_id, session,
                  res, receipt_buf, receipt, verified, journal_out, output_bytes, stdout >>

\* line 53, lib.rs line 188: upload_input asks for the input's upload location
Remote_InputUploadUrl ==
  /\ binary = "methods" /\ pc = "input_url"
  /\ GetUploadUrl("inputs", "input_put")
  /\ UNCHANGED << argVars, guestVars, appsVars, backend, guest_entry, input, client, img_id, input_id, session, res,
                  receipt_buf, receipt, verified, journal_out, output_bytes, stdout >>

\* lib.rs lines 189-190: upload_input PUTs the buffer and returns the uuid
Remote_InputPut ==
  /\ binary = "methods" /\ pc = "input_put"
  /\ PutData("buf", input[1], "create")
  /\ input_id' = IF pc' = "create" THEN << upload_data[1].uuid >> ELSE input_id
  /\ UNCHANGED << argVars, guestVars, appsVars, backend, guest_entry, input, client, upload_data, img_id, session,
                  res, receipt_buf, receipt, verified, journal_out, output_bytes, stdout >>

\* Mutant of ProofReq: the two identifiers change places.
ProofReq_Swapped(img, inp) == << inp, img >>

\* The ProofReq {img, input} that prove_remote line 54 has create_session send.
ProofReq(img, inp) == << img, inp >>

\* line 54, lib.rs lines 209-234: create_session
Remote_CreateSession ==
  /\ binary = "methods" /\ pc = "create"
  /\ \E outcome \in {"senderr", "non2xx", "badjson", "ok"}, id \in Uuids :
       /\ trace' = Append(trace,
            Event("POST", <<client[1].url, "sessions", "create">>, "json",
                  ProofReq(img_id[1], input_id[1]), outcome, "",
                  IF outcome = "ok" THEN << id >> ELSE << >>, << >>))
       /\ IF outcome = "ok"
            THEN /\ session' = << id >>
                 /\ pc' = "poll"
                 /\ UNCHANGED exit
            ELSE /\ Abort(RemoteErr(<<"create_session", outcome>>))
                 /\ UNCHANGED session
  /\ UNCHANGED << argVars, guestVars, appsVars, backend, guest_entry, input, client, upload_data, img_id, input_id,
                  res, receipt_buf, receipt, verified, journal_out, output_bytes, stdout >>

\* lines 57-75, lib.rs lines 69-83: one status query and the branch on its answer
Remote_Status ==
  /\ binary = "methods" /\ pc = "poll"
  /\ Len(StatusQueries) < MaxPolls
  /\ \E outcome \in {"senderr", "non2xx", "badjson", "ok"}, st \in StatusStrings :
     \E ru \in ReceiptUrls(st) :
       LET r == [status |-> st, receipt_url |-> ru]
       IN  /\ trace' = Append(trace,
                Event("GET", <<client[1].url, "sessions", "status", session[1]>>, "",
                      << >>, outcome, IF outcome = "ok" THEN st ELSE "", << >>,
                      IF outcome = "ok" THEN ru ELSE << >>))
           /\ IF outcome # "ok"
                THEN /\ Abort(RemoteErr(<<"status", outcome>>))
                     /\ UNCHANGED res
                ELSE /\ res' = << r >>
                     /\ CASE StatusBranch(r) = "missing_receipt" ->
                               Abort(RemoteErr(<<"API error, missing receipt on completed session">>))
                          [] StatusBranch(r) = "workflow_exited" ->
                               Abort(<<"Workflow exited: ", r.status>>)
                          [] OTHER ->
                               pc' = StatusBranch(r) /\ UNCHANGED exit
  /\ UNCHANGED << argVars, guestVars, appsVars, backend, guest_entry, input, client, upload_data, img_id, input_id,
                  session, receipt_buf, receipt, verified, journal_out, output_bytes,
                  stdout >>

\* line 59: std::thread::sleep(Duration::from_secs(15)), then continue
Remote_Sleep ==
  /\ binary = "methods" /\ pc = "sleep"
  /\ trace' = Append(trace, Event("SLEEP", << >>, "", << PollSleepSecs >>, "ok", "",
                                  << >>, << >>))
  /\ pc' = "poll"
  /\ UNCHANGED << argVars, guestVars, appsVars, backend, guest_entry, input, backendVars, output_bytes, stdout, exit >>

\* line 67, lib.rs lines 241-251: download the receipt; the answer's status code
\* is not looked at
Remote_Download ==
  /\ binary = "methods" /\ pc = "download"
  /\ \E outcome \in {"senderr", "byteserr", "ok"}, http \in {"2xx", "non2xx"},
        body \in DownloadBodies :
       /\ trace' = Append(trace,
            Event("GET", res[1].receipt_url[1], "", << >>, outcome,
                  IF outcome = "senderr" THEN "" ELSE http, << >>, << >>))
       /\ IF outcome = "ok"
            THEN /\ receipt_buf' = << body >>
                 /\ pc' = "deserialize"
                 /\ UNCHANGED exit
            ELSE /\ Abort(RemoteErr(<<"download", outcome>>))
                 /\ UNCHANGED receipt_buf
  /\ UNCHANGED << argVars, guestVars, appsVars, backend, guest_entry, input, client, upload_data, img_id, input_id,
                  session, res, receipt, verified, journal_out, output_bytes, stdout >>

\* line 68: bincode::deserialize(&receipt_buf)?
Remote_Deserialize ==
  /\ binary = "methods" /\ pc = "deserialize"
  /\ LET r == BincodeDeserializeReceipt(receipt_buf[1])
     IN  IF r = << >>
           THEN /\ Abort(RemoteErr(<<"bincode::deserialize">>))
                /\ UNCHANGED receipt
           ELSE /\ receipt' = r
                /\ pc' = "verify"
                /\ UNCHANGED exit
  /\ UNCHANGED << argVars, guestVars, appsVars, backend, guest_entry, input, client, upload_data, img_id, input_id,
                  session, res, receipt_buf, verified, journal_out, output_bytes,
                  stdout, trace >>

\* lines 69-71: receipt.verify(guest_entry.image_id)?
Remote_Verify ==
  /\ binary = "methods" /\ pc = "verify"
  /\ IF ReceiptVerifies(receipt[1], registry[guest_entry[1]].image_id)
       THEN /\ verified' = "ok"
            /\ pc' = "return"
            /\ UNCHANGED exit
       ELSE /\ verified' = "failed"
            /\ Abort(RemoteErr(<<"Receipt verification failed">>))
  /\ UNCHANGED << argVars, guestVars, appsVars, backend, guest_entry, input, client, upload_data, img_id, input_id,
                  session, res, receipt_buf, receipt, journal_out, output_bytes,
                  stdout, trace >>

\* line 72: return Ok(receipt.journal), which main takes as output_bytes
Remote_Return ==
  /\ binary = "methods" /\ pc = "return"
  /\ journal_out' = << receipt[1].journal >>
  /\ output_bytes' = << receipt[1].journal >>
  /\ pc' = "print"
  /\ UNCHANGED << argVars, guestVars, appsVars, backend, guest_entry, input, client, upload_data, img_id, input_id,
                  session, res, receipt_buf, receipt, verified, stdout, trace, exit >>

(***************************************************************************)
(* apps/src/main.rs: main                                                  *)
(***************************************************************************)
\* methods::BITCOIN_BLOCK_VERIFY_ID and BITCOIN_BLOCK_VERIFY_ELF
BITCOIN_BLOCK_VERIFY_ID == GUEST_LIST[1].image_id

BITCOIN_BLOCK_VERIFY_ELF == GUEST_LIST[1].elf

RECURSIVE SumBytes(_)
SumBytes(bytes) ==
  IF bytes = << >> THEN 0 ELSE bytes[1] + SumBytes(SubSeq(bytes, 2, Len(bytes)))

\* RawHeader::digest: the 32-byte hash of an 80-byte header.  The hash function
\* is the library's; here a stand-in that depends on every byte of the header.
Digest(header) ==
  LET sum == SumBytes(header)
      mix == [i \in 1..IdBytes |-> (sum + 31 * i + header[i] + 3 * header[i + 48]) % 256]
  IN  SubSeq(mix, 1, IdBytes)

\* The previous-block hash a header carries (bytes 4..36 of the header).
PrevHash(header) == SubSeq(header, 5, 4 + IdBytes)

\* The nBits field of a header (bytes 72..76).
Bits(header) == SubSeq(header, 73, 76)

\* The work check of the validator: the most significant byte of the digest
\* (its last byte) is within the target the header states.
WorkOk(header) == Digest(header)[IdBytes] <= Bits(header)[3]

\* HeaderArray::new: Err unless the length is a multiple of 80.  Result as Option.
HeaderArrayNew(bytes) == IF Len(bytes) % HeaderLen = 0 THEN << bytes >> ELSE << >>

\* HeaderArray::len and HeaderArray::index (index from 0).
HeaderArrayLen(bytes) == Len(bytes) \div HeaderLen

HeaderArrayIndex(bytes, i) == SubSeq(bytes, HeaderLen * i + 1, HeaderLen * (i + 1))

\* Mutant of ValidateHeaderChain: the last header's link is not checked.
ValidateHeaderChain_SkipsLast(bytes) ==
  \A i \in 0..(HeaderArrayLen(bytes) - 2) :
    LET header == HeaderArrayIndex(bytes, i)
    IN  /\ WorkOk(header)
        /\ i > 0 => PrevHash(header) = Digest(HeaderArrayIndex(bytes, i - 1))
        /\ Bits(header) = Bits(HeaderArrayIndex(bytes, 0))

\* validate_header_chain(&headers, true): every header meets its target, names
\* the digest of the header before it, and keeps the target of the first header.
ValidateHeaderChain(bytes) ==
  \A i \in 0..(HeaderArrayLen(bytes) - 1) :
    LET header == HeaderArrayIndex(bytes, i)
    IN  /\ WorkOk(header)
        /\ i > 0 => PrevHash(header) = Digest(HeaderArrayIndex(bytes, i - 1))
        /\ Bits(header) = Bits(HeaderArrayIndex(bytes, 0))

\* The header of the block the node holds at height h: version, previous hash,
\* merkle root, time, bits and a nonce that meets the target.
MinedHeader(prev, h) ==
  LET body == <<1, 0, 0, 0>> \o prev \o [i \in 1..IdBytes |-> (16 * h + i) % 256]
                \o <<h, 0, 0, 0>> \o <<255, 255, 127, 32>>
      nonce == CHOOSE n \in 0..255 : WorkOk(body \o <<n, 0, 0, 0>>)
  IN  body \o <<nonce, 0, 0, 0>>

\* The headers of the node's chain from BeginHeight up to height h, in order.
RECURSIVE ChainUpTo(_)
ChainUpTo(h) ==
  IF h < BeginHeight THEN << >>
  ELSE LET before == ChainUpTo(h - 1)
           prev == IF before = << >> THEN [i \in 1..IdBytes |-> (7 * i) % 256]
                   ELSE Digest(before[Len(before)])
       IN  Append(before, MinedHeader(prev, h))

NodeChain == ChainUpTo(EndHeight)

HeaderAt(h) == NodeChain[h - BeginHeight + 1]

\* The bytes of the block the node holds at height h, n bytes of it: the header,
\* then transaction data.
BlockBytes(h, n) ==
  SubSeq(HeaderAt(h) \o [i \in 1..HeaderLen |-> (16 * h + i) % 256], 1, n)

\* A block whose header differs from the chain's in one byte of its merkle root.
AlteredBlockBytes(h, n) ==
  [BlockBytes(h, n) EXCEPT ![40] = (@ + 1) % 256]

\* What get_block_hex may answer for height h: the hex text of a block (a header
\* followed by more), of a block cut short of a header, or text that is no hex;
\* for the first height also a bare header, and for the height before the last
\* also a block that is not the chain's.
BlockHexAnswers(h) ==
  { HexEncode(BlockBytes(h, HeaderLen + 1)), HexEncode(BlockBytes(h, HeaderLen - 1)),
    <<"a">> }
    \cup (IF h = BeginHeight THEN { HexEncode(BlockBytes(h, HeaderLen)) } ELSE {})
    \cup (IF h = EndHeight - 1 THEN { HexEncode(AlteredBlockBytes(h, HeaderLen + 1)) }
          ELSE {})

\* risc0_zkvm::serde on a Vec<u8>: a length word, then one 32-bit word per byte,
\* every word little-endian.
SerdeBytes(bytes) ==
  ToLeBytes(Len(bytes)) \o [i \in 1..(4 * Len(bytes)) |->
                              IF i % 4 = 1 THEN bytes[(i + 3) \div 4] ELSE 0]

\* Mutant of EnvWrite: the high word of the u64 goes first.
EnvWrite_HighWordFirst(height_bytes, bytes) ==
  SubSeq(height_bytes, 5, 8) \o SubSeq(height_bytes, 1, 4) \o SerdeBytes(bytes)

\* ExecutorEnv::builder().write(&(u64, Vec<u8>)): the u64 as two words, low
\* word first, then the Vec<u8>.  The u64 is held as its eight little-endian bytes.
EnvWrite(height_bytes, bytes) == height_bytes \o SerdeBytes(bytes)

\* The value of a little-endian word.
WordValue(four) == four[1] + 256 * four[2] + 65536 * four[3] + 16777216 * four[4]

\* env::read::<(u64, Vec<u8>)>(): the inverse of EnvWrite; fails on a buffer that
\* ends early or on a byte word of 256 or more.  Result as Option.
EnvRead(buf) ==
  IF Len(buf) < 12 THEN << >>
  ELSE LET n == WordValue(SubSeq(buf, 9, 12))
       IN  IF Len(buf) < 12 + 4 * n THEN << >>
           ELSE IF \E k \in 1..n :
                     buf[12 + 4 * k - 2] # 0 \/ buf[12 + 4 * k - 1] # 0 \/ buf[12 + 4 * k] # 0
             THEN << >>
             ELSE << [height |-> SubSeq(buf, 1, 8),
                      bytes |-> [k \in 1..n |-> buf[12 + 4 * k - 3]]] >>

\* ethabi::encode(&[Token::Uint(U256::from(height)), Token::FixedBytes(hash)]):
\* the height as a 32-byte big-endian word, then the 32 bytes of the hash.
EthabiEncode(height_bytes, hash) ==
  [i \in 1..24 |-> 0] \o [i \in 1..8 |-> height_bytes[9 - i]] \o hash

\* env::commit(&ret) of a Vec<u8>: the journal is the serde encoding of the vector.
EnvCommit(ret) == SerdeBytes(ret)

\* receipt.journal.decode::<(u64, [u8; 32])>(): the journal is read as 32-bit
\* little-endian words, a u64 from two words and each u8 from one word that must
\* be below 256.  The u64 is kept as its eight little-endian bytes.
DecodeJournal(bytes) ==
  IF Len(bytes) < 4 * (2 + IdBytes) THEN << >>
  ELSE IF \E k \in 3..(2 + IdBytes) :
            bytes[4 * k - 2] # 0 \/ bytes[4 * k - 1] # 0 \/ bytes[4 * k] # 0
    THEN << >>
    ELSE << [height |-> SubSeq(bytes, 1, 8),
             hash |-> [i \in 1..IdBytes |-> bytes[4 * (i + 2) - 3]]] >>

\* A journal that decodes: height EndHeight and a 32-byte hash, one word per byte.
WellFormedJournal ==
  [i \in 1..(4 * (2 + IdBytes)) |->
     IF i = 1 THEN EndHeight
     ELSE IF i > 8 /\ i % 4 = 1 THEN (200 + i) % 256
     ELSE 0]

\* Receipts default_prover().prove may return.
AppsReceiptPool ==
  { MkReceipt(BITCOIN_BLOCK_VERIFY_ID, WellFormedJournal, TRUE, "Composite"),
    MkReceipt(BITCOIN_BLOCK_VERIFY_ID, WellFormedJournal, TRUE, "Succinct"),
    MkReceipt(GUEST_LIST[2].image_id, WellFormedJournal, TRUE, "Compact"),
    MkReceipt(BITCOIN_BLOCK_VERIFY_ID, WellFormedJournal, FALSE, "Fake"),
    MkReceipt(BITCOIN_BLOCK_VERIFY_ID, <<1, 2, 3>>, TRUE, "Compact") }

\* The seal bytes of a succinct or compact receipt, as printed.
SealBytes == <<222, 173>>

\* lines 22-29: one turn of the loop over begin..=end
Apps_FetchHeader ==
  /\ binary = "apps" /\ pc = "start"
  /\ height <= EndHeight
  /\ \E outcome \in {"hash_err", "hex_err", "ok"}, answer \in BlockHexAnswers(height) :
       LET hashEv == Event("RPC", << >>, "get_block_hash", << height >>,
                           IF outcome = "hash_err" THEN outcome ELSE "ok", "", << >>, << >>)
           data == HexDecode(answer)
           hexEv == Event("RPC", << >>, "get_block_hex", << height >>,
                           IF outcome = "hex_err" THEN outcome ELSE "ok", "",
                           IF outcome = "ok" /\ data # << >> THEN << Len(data[1]) >>
                           ELSE << >>,
                           << >>)
       IN  /\ trace' = IF outcome = "hash_err" THEN Append(trace, hashEv)
                       ELSE trace \o << hashEv, hexEv >>
           /\ IF outcome # "ok"
                THEN /\ Abort(<<"RPC", outcome>>)
                     /\ UNCHANGED << height, headers, supplied >>
                ELSE IF data = << >>
                  THEN /\ Abort(<<"hex::decode">>)
                       /\ UNCHANGED << height, headers, supplied >>
                  ELSE IF Len(data[1]) < HeaderLen
                    THEN /\ Abort(<<"range end index 80 out of range">>)
                         /\ UNCHANGED << height, headers, supplied >>
                    ELSE /\ headers' = headers \o SubSeq(data[1], 1, HeaderLen)
                         /\ supplied' = [supplied EXCEPT !.records = Append(@, data[1])]
                         /\ height' = height + 1
                         /\ pc' = IF height = EndHeight THEN "build_env" ELSE "start"
                         /\ UNCHANGED exit
  /\ UNCHANGED << argVars, env_input, guest_data, guest_journal, guest_exit, methodsVars,
                  receipt, verified, decoded, stdout >>

\* lines 30-37: input = (end, input); ExecutorEnv::builder().write(&input)
Apps_BuildEnv ==
  /\ binary = "apps" /\ pc = "build_env"
  /\ env_input' = << EnvWrite(U64LeBytes(EndHeight), headers) >>
  /\ pc' = "guest_read"
  /\ UNCHANGED << argVars, supplied, guest_data, guest_journal, guest_exit, methodsVars,
                  appsVars, receipt, verified, stdout, trace, exit >>

(***************************************************************************)
(* methods/guest/src/bin/bitcoin_block_verify.rs: main, run by the prover  *)
(***************************************************************************)
\* Where control goes when the guest has ended.
AfterGuest == IF binary = "apps" THEN "prove" ELSE "guest_ended"

GuestPanic(msg) ==
  /\ guest_exit' = Panic(msg)
  /\ pc' = AfterGuest

\* line 13: let data: (u64, Vec<u8>) = env::read();
Guest_Read ==
  /\ pc = "guest_read"
  /\ LET d == EnvRead(env_input[1])
     IN  IF d = << >>
           THEN /\ GuestPanic(<<"env::read">>)
                /\ UNCHANGED guest_data
           ELSE /\ guest_data' = d
                /\ pc' = "guest_validate"
                /\ UNCHANGED guest_exit
  /\ UNCHANGED << argVars, supplied, env_input, guest_journal, methodsVars, appsVars,
                  receipt, verified, stdout, trace, exit >>

\* lines 14-15: HeaderArray::new(&data.1).unwrap(); validate_header_chain(..).unwrap()
Guest_Validate ==
  /\ pc = "guest_validate"
  /\ IF HeaderArrayNew(guest_data[1].bytes) = << >>
       THEN GuestPanic(<<"HeaderArray::new">>)
       ELSE IF ~ValidateHeaderChain(guest_data[1].bytes)
         THEN GuestPanic(<<"validate_header_chain">>)
         ELSE pc' = "guest_commit" /\ UNCHANGED guest_exit
  /\ UNCHANGED << argVars, supplied, env_input, guest_data, guest_journal, methodsVars,
                  appsVars, receipt, verified, stdout, trace, exit >>

\* lines 16-22: the digest of the last header, the ABI encoding, env::commit
Guest_Commit ==
  /\ pc = "guest_commit"
  /\ LET bytes == guest_data[1].bytes
         len == HeaderArrayLen(bytes)
     IN  IF len = 0
           THEN /\ GuestPanic(<<"headers.len() - 1">>)
                /\ UNCHANGED guest_journal
           ELSE LET raw_header == HeaderArrayIndex(bytes, len - 1)
                    hash == Digest(raw_header)
                    ret == EthabiEncode(guest_data[1].height, hash)
                IN  /\ guest_journal' = << EnvCommit(ret) >>
                    /\ guest_exit' = ExitOk
                    /\ pc' = AfterGuest
  /\ UNCHANGED << argVars, supplied, env_input, guest_data, methodsVars, appsVars,
                  receipt, verified, stdout, trace, exit >>

\* The receipt of an honest proof of the guest run: the committed journal, bound
\* to the image id of the guest.
GuestReceipt(committed) ==
  MkReceipt(BITCOIN_BLOCK_VERIFY_ID, committed, TRUE, "Composite")

\* line 43: what prover.prove(env, ELF) returns once the guest has run: an error
\* when the guest panicked or the prover failed, else the receipt of the run or
\* another receipt the prover hands back.
Apps_Prove ==
  /\ binary = "apps" /\ pc = "prove"
  /\ \E outcome \in (IF guest_journal = << >> THEN {"prove_err"} ELSE {"prove_err", "ok"}),
        r \in (IF guest_journal = << >> THEN AppsReceiptPool
               ELSE AppsReceiptPool \cup { GuestReceipt(guest_journal[1]) }) :
       /\ trace' = Append(trace, Event("PROVE", << >>, BITCOIN_BLOCK_VERIFY_ELF,
                                       env_input[1], outcome, "",
                                       << >>, << >>))
       /\ IF outcome = "ok"
            THEN /\ receipt' = << r >>
                 /\ pc' = "decode"
                 /\ UNCHANGED exit
            ELSE /\ Abort(<<"prove">>)
                 /\ UNCHANGED receipt
  /\ UNCHANGED << argVars, guestVars, methodsVars, appsVars, verified, stdout >>

\* line 46: decode the journal into (height, hash)
Apps_Decode ==
  /\ binary = "apps" /\ pc = "decode"
  /\ LET d == DecodeJournal(receipt[1].journal)
     IN  IF d = << >>
           THEN /\ Abort(<<"journal decode">>)
                /\ UNCHANGED decoded
           ELSE /\ decoded' = d
                /\ pc' = "print_output"
                /\ UNCHANGED exit
  /\ UNCHANGED << argVars, guestVars, methodsVars, height, headers, receipt, verified, stdout, trace >>

\* line 47: println!("output: {} 0x{}", height, hex::encode(hash))
Apps_PrintOutput ==
  /\ binary = "apps" /\ pc = "print_output"
  /\ stdout' = Append(stdout, Printed("output:", << decoded[1].height >>,
                                      HexEncode(decoded[1].hash)))
  /\ pc' = "verify"
  /\ UNCHANGED << argVars, guestVars, methodsVars, appsVars, receipt, verified, trace, exit >>

\* line 49: receipt.verify(BITCOIN_BLOCK_VERIFY_ID).unwrap()
Apps_Verify ==
  /\ binary = "apps" /\ pc = "verify"
  /\ IF ReceiptVerifies(receipt[1], BITCOIN_BLOCK_VERIFY_ID)
       THEN /\ verified' = "ok"
            /\ pc' = "digest"
            /\ UNCHANGED exit
       ELSE /\ verified' = "failed"
            /\ Abort(<<"receipt.verify">>)
  /\ UNCHANGED << argVars, guestVars, methodsVars, appsVars, receipt, stdout, trace >>

\* lines 50-59: print the post-state digest of the receipt's claim
Apps_PrintDigest ==
  /\ binary = "apps" /\ pc = "digest"
  /\ \E outcome \in {"ok", "unwrap_err"} :
       IF outcome = "ok"
         THEN /\ stdout' = Append(stdout, Printed("postStateDigest:", << >>, << >>))
              /\ pc' = "seal"
              /\ UNCHANGED exit
         ELSE /\ Abort(<<"get_claim">>)
              /\ UNCHANGED stdout
  /\ UNCHANGED << argVars, guestVars, methodsVars, appsVars, receipt, verified, trace >>

\* lines 60-69: print the seal of a succinct or compact receipt
Apps_PrintSeal ==
  /\ binary = "apps" /\ pc = "seal"
  /\ stdout' = IF receipt[1].inner \in {"Succinct", "Compact"}
                 THEN Append(stdout, Printed(receipt[1].inner, << >>, HexEncode(SealBytes)))
                 ELSE stdout
  /\ pc' = "done"
  /\ exit' = ExitOk
  /\ UNCHANGED << argVars, guestVars, methodsVars, appsVars, receipt, verified, trace >>

Next ==
  \/ Main_Resolve
  \/ Main_NoInput
  \/ Main_Input
  \/ Main_Print
  \/ Local_Execute
  \/ Local_Prove
  \/ Remote_FromEnv
  \/ Remote_ImgUploadUrl
  \/ Remote_ImgOpen
  \/ Remote_ImgPut
  \/ Remote_InputUploadUrl
  \/ Remote_InputPut
  \/ Remote_CreateSession
  \/ Remote_Status
  \/ Remote_Sleep
  \/ Remote_Download
  \/ Remote_Deserialize
  \/ Remote_Verify
  \/ Remote_Return
  \/ Apps_FetchHeader
  \/ Apps_BuildEnv
  \/ Guest_Read
  \/ Guest_Validate
  \/ Guest_Commit
  \/ Apps_Prove
  \/ Apps_Decode
  \/ Apps_PrintOutput
  \/ Apps_Verify
  \/ Apps_PrintDigest
  \/ Apps_PrintSeal

Spec == Init /\ [][Next]_vars

(***************************************************************************)
(* One remote run of the dispatcher, from a well-formed command line and   *)
(* BONSAI_ENDPOINT, with the scheduling of a sequential thread.            *)
(***************************************************************************)
InitPoll ==
  /\ binary = "methods"
  /\ registry = GUEST_LIST
  /\ pc = "start"
  /\ guest_binary = <<"b","t","c">>
  /\ input_arg = << <<"0","x","0","1","0","2">> >>
  /\ env_endpoint = EnvSet(<<"u","|","k">>)
  /\ env_prove_locally = EnvAbsent
  /\ supplied = AppsSupplied
  /\ InitState

NextPoll ==
  \/ Main_Resolve
  \/ Main_Input
  \/ Remote_FromEnv
  \/ Remote_ImgUploadUrl
  \/ Remote_ImgOpen
  \/ Remote_ImgPut
  \/ Remote_InputUploadUrl
  \/ Remote_InputPut
  \/ Remote_CreateSession
  \/ Remote_Status
  \/ Remote_Sleep
  \/ Remote_Download
  \/ Remote_Deserialize
  \/ Remote_Verify
  \/ Remote_Return
  \/ Main_Print

\* prove_remote is one sequential thread: while its next statement can run, it
\* does run.
SpecPoll ==
  /\ InitPoll /\ [][NextPoll]_vars
  /\ WF_vars(Remote_Status) /\ WF_vars(Remote_Sleep)
  /\ WF_vars(Remote_Download) /\ WF_vars(Remote_Deserialize)
  /\ WF_vars(Remote_Verify) /\ WF_vars(Remote_Return)
  /\ WF_vars(Main_Print)

(***************************************************************************)
(* The packaging of the input, the guest and the decoding of its journal   *)
(* on their own: the height and the header records are drawn from bounded  *)
(* sets instead of being fetched.                                          *)
(***************************************************************************)
\* u64 heights, as their eight little-endian bytes.
SuppliedHeights ==
  { U64LeBytes(EndHeight), U64LeBytes(0), <<0, 1, 0, 0, 0, 0, 0, 0>>,
    <<1, 2, 3, 4, 5, 6, 7, 8>>, [i \in 1..8 |-> 255] }

AlteredHeader(header) == [header EXCEPT ![40] = (@ + 1) % 256]

\* Lists of header records: the node's chain from its start or from its second
\* header, the same with one header altered or with the first two swapped, and
\* lists with a record that is one byte short or one byte long.
SuppliedRecords ==
  { SubSeq(NodeChain, 1, n) : n \in 0..MaxChain }
    \cup { SubSeq(NodeChain, 2, n + 1) : n \in 1..MaxChain }
    \cup UNION { { [SubSeq(NodeChain, 1, n) EXCEPT ![k] = AlteredHeader(@)] :
                    k \in 1..n } : n \in 2..MaxChain }
    \cup { << NodeChain[2], NodeChain[1] >>,
           << NodeChain[1], SubSeq(NodeChain[2], 1, HeaderLen - 1) >>,
           << NodeChain[1] \o <<0>>, NodeChain[2] >> }

InitGuest ==
  /\ binary = "guest"
  /\ registry = GUEST_LIST
  /\ pc = "package"
  /\ guest_binary = << >>
  /\ input_arg = << >>
  /\ env_endpoint = EnvAbsent
  /\ env_prove_locally = EnvAbsent
  /\ supplied \in [height : SuppliedHeights, records : SuppliedRecords]
  /\ InitState

RECURSIVE ExtendFromSlices(_)
\* input.extend_from_slice(&data[..80]) for every record, in order.
ExtendFromSlices(recs) ==
  IF recs = << >> THEN << >>
  ELSE SubSeq(recs[1], 1, HeaderLen) \o ExtendFromSlices(SubSeq(recs, 2, Len(recs)))

\* apps lines 28-37 on the supplied records: slice, concatenate, pair with the
\* height, write into the environment
Host_Package ==
  /\ binary = "guest" /\ pc = "package"
  /\ IF \E k \in DOMAIN supplied.records : Len(supplied.records[k]) < HeaderLen
       THEN /\ Abort(<<"range end index 80 out of range">>)
            /\ UNCHANGED << headers, env_input >>
       ELSE /\ headers' = ExtendFromSlices(supplied.records)
            /\ env_input' = << EnvWrite(supplied.height, headers') >>
            /\ pc' = "guest_read"
            /\ UNCHANGED exit
  /\ UNCHANGED << argVars, supplied, guest_data, guest_journal, guest_exit, methodsVars,
                  height, decoded, receipt, verified, stdout, trace >>

\* apps line 46 on the journal the guest committed
Host_Decode ==
  /\ binary = "guest" /\ pc = "guest_ended"
  /\ guest_journal # << >>
  /\ LET d == DecodeJournal(guest_journal[1])
     IN  IF d = << >>
           THEN /\ Abort(<<"journal decode">>)
                /\ UNCHANGED decoded
           ELSE /\ decoded' = d
                /\ pc' = "decoded"
                /\ UNCHANGED exit
  /\ UNCHANGED << argVars, guestVars, methodsVars, height, headers, receipt, verified,
                  stdout, trace >>

NextGuest ==
  \/ Host_Package
  \/ Guest_Read
  \/ Guest_Validate
  \/ Guest_Commit
  \/ Host_Decode

SpecGuest == InitGuest /\ [][NextGuest]_vars

(***************************************************************************)
(* The lookup of main (lines 83-94) on its own: the query and the registry *)
(* are drawn from bounded sets, no input is given, and main resolves the   *)
(* query and prints the identity.                                          *)
(***************************************************************************)
InitResolveIn(guest_lists) ==
  /\ binary = "methods"
  /\ registry \in guest_lists
  /\ pc = "start"
  /\ guest_binary \in ResolveQueries(registry)
  /\ input_arg = << >>
  /\ env_endpoint \in { EnvAbsent, EnvSet(<<"u","|","k">>) }
  /\ env_prove_locally = EnvAbsent
  /\ supplied = AppsSupplied
  /\ InitState

InitResolve == InitResolveIn(Registries)

InitResolveAny == InitResolveIn(Registries \cup { GUEST_LIST_ZERO })

NextResolve == Main_Resolve \/ Main_NoInput \/ Main_Print

SpecResolve == InitResolve /\ [][NextResolve]_vars

SpecResolveAny == InitResolveAny /\ [][NextResolve]_vars

(***************************************************************************)
(* Reading the trace.                                                      *)
(***************************************************************************)
IsUploadUrlGet(e, route) == e.op = "GET" /\ Len(e.url) = 3 /\ e.url[2] = route

IsPut(e) == e.op = "PUT"

IsCreate(e) == e.op = "POST"

IsStatusQuery(e) == e.op = "GET" /\ Len(e.url) = 4

IsSleep(e) == e.op = "SLEEP"

IsDownload(e) == e.op = "GET" /\ Len(e.url) = 2

IsNetwork(e) == e.op \in {"GET", "PUT", "POST"}

IsLocalRun(e) == e.op \in {"EXEC", "PROVE"}

Count(P(_)) == Len(SelectSeq(trace, P))

\* The status queries and the sleeps of the polling loop, in order.
PollEvents == SelectSeq(trace, LAMBDA e : IsStatusQuery(e) \/ IsSleep(e))

Answered(e, status) == IsStatusQuery(e) /\ e.res = "ok" /\ e.info = status

FailureStatuses == {"FAILED", "TIMED_OUT", "ABORTED"}

NoOutput == stdout = << >> /\ output_bytes = << >> /\ journal_out = << >>

(***************************************************************************)
(* C1: in every path that obtains a receipt (prove_remote, the apps host)  *)
(* the receipt is verified against the expected image id before its       *)
(* journal is decoded, returned or printed; when verification fails,       *)
(* nothing of the journal has been extracted or printed.                   *)
(***************************************************************************)
C1_VerifyBeforeJournal ==
  receipt # << >> =>
    /\ (journal_out # << >> \/ decoded # << >> \/ stdout # << >>) => verified = "ok"
    /\ verified = "failed" => (journal_out = << >> /\ decoded = << >> /\ stdout = << >>)

(***************************************************************************)
(* C2: when the dispatcher is given an input and prints an output, the     *)
(* output is the journal of a receipt that passed verification against     *)
(* the resolved entry's image id, whichever backend ran.                   *)
(***************************************************************************)
C2_OutputFromVerifiedReceipt ==
  (binary = "methods" /\ input_arg # << >> /\ stdout # << >>) =>
    /\ receipt # << >>
    /\ verified = "ok"
    /\ ReceiptVerifies(receipt[1], registry[guest_entry[1]].image_id)

(***************************************************************************)
(* C3: in the polling loop, queries and sleeps alternate: every query      *)
(* answered RUNNING is followed by one sleep of 15 seconds and then the    *)
(* next query, so k RUNNING answers followed by SUCCEEDED with a locator   *)
(* make k+1 queries and k sleeps; a download is issued only right after a  *)
(* query answered SUCCEEDED.                                               *)
(***************************************************************************)
C3_PollingLoop ==
  LET p == PollEvents
      q == StatusQueries
      running == Len(SelectSeq(q, LAMBDA e : Answered(e, "RUNNING")))
  IN  /\ \A i \in DOMAIN p :
           IF i % 2 = 1
             THEN IsStatusQuery(p[i]) /\ (i < Len(p) => Answered(p[i], "RUNNING"))
             ELSE IsSleep(p[i]) /\ p[i].data = << PollSleepSecs >>
      /\ \A i \in DOMAIN trace :
           IsDownload(trace[i]) =>
             /\ i > 1
             /\ Answered(trace[i - 1], "SUCCEEDED")
             /\ \A j \in 1..(i - 1) : ~IsDownload(trace[j])
      /\ (q # << >> /\ Answered(q[Len(q)], "SUCCEEDED") /\ q[Len(q)].loc # << >>) =>
           /\ Len(q) = running + 1
           /\ Count(IsSleep) = running
           /\ pc # "poll" /\ pc # "sleep"

C3_Witness ==
  /\ pc = "download"
  /\ Len(StatusQueries) = 3
  /\ Count(IsSleep) = 2
  /\ Answered(StatusQueries[1], "RUNNING") /\ StatusQueries[1].loc # << >>

(***************************************************************************)
(* C4: a status answer of SUCCEEDED without a receipt locator ends         *)
(* prove_remote with an error: it is the last operation of the run, no     *)
(* download and no further query follow, and no journal is returned.       *)
(***************************************************************************)
C4_MissingLocatorIsError ==
  \A i \in DOMAIN trace :
    (Answered(trace[i], "SUCCEEDED") /\ trace[i].loc = << >>) =>
      /\ i = Len(trace)
      /\ pc = "panicked"
      /\ exit = Panic(RemoteErr(<<"API error, missing receipt on completed session">>))
      /\ receipt_buf = << >> /\ receipt = << >>
      /\ NoOutput

C4_Witness ==
  /\ trace # << >>
  /\ Answered(trace[Len(trace)], "SUCCEEDED") /\ trace[Len(trace)].loc = << >>
  /\ Len(StatusQueries) = 2
  /\ pc = "panicked"

(***************************************************************************)
(* C5: a status answer of FAILED, TIMED_OUT or ABORTED ends the attempt in *)
(* failure with the status text in the message; it is the last operation   *)
(* of the run (no query, download, upload or session creation follows) and *)
(* nothing is printed.                                                     *)
(***************************************************************************)
C5_FailureStatusIsFatal ==
  \A i \in DOMAIN trace :
    (IsStatusQuery(trace[i]) /\ trace[i].res = "ok" /\ trace[i].info \in FailureStatuses) =>
      /\ i = Len(trace)
      /\ pc = "panicked"
      /\ exit = Panic(<<"Workflow exited: ", trace[i].info>>)
      /\ receipt_buf = << >> /\ receipt = << >>
      /\ NoOutput

C5_Witness ==
  /\ trace # << >>
  /\ Answered(trace[Len(trace)], "TIMED_OUT") /\ trace[Len(trace)].loc # << >>
  /\ Len(StatusQueries) = 2
  /\ exit = Panic(<<"Workflow exited: ", "TIMED_OUT">>)

(***************************************************************************)
(* C6: a session is created only after the image upload and the input      *)
(* upload have both succeeded, and with exactly the two identifiers those  *)
(* uploads returned (image first); a status query is issued only after     *)
(* session creation succeeded, and for the token it returned.              *)
(***************************************************************************)
C6_RemoteJobOrder ==
  /\ \A i \in DOMAIN trace :
       IsCreate(trace[i]) =>
         \E g1, p1, g2, p2 \in 1..(i - 1) :
           /\ g1 < p1 /\ p1 < g2 /\ g2 < p2
           /\ IsUploadUrlGet(trace[g1], "images") /\ trace[g1].res = "ok"
           /\ IsPut(trace[p1]) /\ trace[p1].res = "ok"
           /\ trace[p1].url = trace[g1].loc[1]
           /\ trace[p1].what = registry[guest_entry[1]].path
           /\ IsUploadUrlGet(trace[g2], "inputs") /\ trace[g2].res = "ok"
           /\ IsPut(trace[p2]) /\ trace[p2].res = "ok"
           /\ trace[p2].url = trace[g2].loc[1]
           /\ trace[p2].what = "buf" /\ trace[p2].data = input[1]
           /\ trace[i].data = << trace[g1].ret[1], trace[g2].ret[1] >>
  /\ \A i \in DOMAIN trace :
       IsStatusQuery(trace[i]) =>
         \E c \in 1..(i - 1) :
           /\ IsCreate(trace[c]) /\ trace[c].res = "ok"
           /\ trace[i].url[4] = trace[c].ret[1]
           /\ trace[i].url[1] = trace[c].url[1]

C6_Witness ==
  /\ \E i \in DOMAIN trace : IsStatusQuery(trace[i])
  /\ \E i \in DOMAIN trace :
       IsCreate(trace[i]) /\ trace[i].data = << 2, 1 >> /\ trace[i].ret = << 2 >>

(***************************************************************************)
(* C7: no step of a remote job is retried: a failed upload-location        *)
(* request, PUT, session creation or status query is the last operation of *)
(* the run, and the upload-location request and the PUT of each artifact   *)
(* and the session creation are each issued at most once.                  *)
(***************************************************************************)
C7_NoRetry ==
  /\ \A i \in DOMAIN trace :
       ( /\ \/ IsUploadUrlGet(trace[i], "images") \/ IsUploadUrlGet(trace[i], "inputs")
            \/ IsPut(trace[i]) \/ IsCreate(trace[i]) \/ IsStatusQuery(trace[i])
         /\ trace[i].res # "ok" ) =>
         /\ i = Len(trace)
         /\ pc = "panicked"
         /\ exit.kind = "panic"
         /\ NoOutput
  /\ Count(LAMBDA e : IsUploadUrlGet(e, "images")) <= 1
  /\ Count(LAMBDA e : IsUploadUrlGet(e, "inputs")) <= 1
  /\ Count(LAMBDA e : IsPut(e) /\ e.what = "buf") <= 1
  /\ Count(LAMBDA e : IsPut(e) /\ e.what # "buf") <= 1
  /\ Count(IsCreate) <= 1

C7_Witness ==
  /\ pc = "panicked"
  /\ Len(trace) = 5
  /\ IsPut(trace[5]) /\ trace[5].what = "buf" /\ trace[5].res = "non2xx"

(***************************************************************************)
(* C8: after SUCCEEDED the receipt is downloaded exactly once, and a       *)
(* failed download - a transport error or an answer that is not 2xx - is   *)
(* fatal: its body is not deserialized, verified or returned.              *)
(***************************************************************************)
C8_FailedDownloadIsFatal ==
  /\ Count(IsDownload) <= 1
  /\ \A i \in DOMAIN trace :
       (IsDownload(trace[i]) /\ (trace[i].res # "ok" \/ trace[i].info # "2xx")) =>
         /\ i = Len(trace)
         /\ pc = "panicked"
         /\ receipt = << >>
         /\ verified = "none"
         /\ NoOutput

(***************************************************************************)
(* C9: given an input, the dispatcher calls exactly one backend: the       *)
(* remote one if and only if BONSAI_ENDPOINT is present in the             *)
(* environment, otherwise the local one; the local path issues no network  *)
(* request and the remote path runs nothing locally.                       *)
(***************************************************************************)
C9_BackendByEndpointPresence ==
  (binary = "methods" /\ input_arg # << >> /\ backend # "none") =>
    /\ backend = "remote" <=> env_endpoint.state # "absent"
    /\ backend = "local" => (Count(IsNetwork) = 0 /\ client = << >>)
    /\ backend = "remote" => Count(IsLocalRun) = 0

(***************************************************************************)
(* C10: without an input, once the query has resolved, the only thing      *)
(* printed is the 32-byte image id of the resolved entry (as hex), and     *)
(* nothing is proved: no local run, no request, no backend called,         *)
(* whatever BONSAI_ENDPOINT holds.                                         *)
(***************************************************************************)
C10_NoInputPrintsIdentity ==
  (binary = "methods" /\ input_arg = << >> /\ guest_entry # << >>) =>
    LET words == registry[guest_entry[1]].image_id
        identity == [i \in 1..IdBytes |->
                       LET w == words[((i - 1) \div 4) + 1]
                           k == (i - 1) % 4
                       IN  CASE k = 0 -> w % 256
                             [] k = 1 -> (w \div 256) % 256
                             [] k = 2 -> (w \div 65536) % 256
                             [] k = 3 -> (w \div 16777216) % 256]
    IN  /\ trace = << >>
        /\ backend = "none"
        /\ client = << >> /\ receipt = << >> /\ journal_out = << >>
        /\ pc \in {"resolved", "print", "done"}
        /\ pc = "done" =>
             /\ Len(stdout) = 1
             /\ stdout[1].label = "" /\ stdout[1].num = << >>
             /\ Len(stdout[1].hex) = 2 * IdBytes
             /\ HexDecode(stdout[1].hex) = << identity >>
        /\ pc # "done" => stdout = << >>

C10_Witness ==
  /\ binary = "methods" /\ input_arg = << >> /\ pc = "done"
  /\ EnvVarIsOk(env_endpoint)
  /\ guest_entry = << 2 >>
  /\ SubSeq(stdout[1].hex, 1, 8) = <<"0","8","0","7","0","6","0","5">>

(***************************************************************************)
(* What a query names, read off the query itself.                          *)
(***************************************************************************)
\* The query equals the name, letter case aside.
SameIgnoringCase(query, name) ==
  /\ Len(query) = Len(name)
  /\ \A i \in DOMAIN query : ToLowerChar(query[i]) = ToLowerChar(name[i])

\* The 32 bytes of an entry's identity, each word least significant byte first.
IdentityBytes(entry) ==
  [i \in 1..IdBytes |->
     LET w == entry.image_id[((i - 1) \div 4) + 1]
         k == (i - 1) % 4
     IN  CASE k = 0 -> w % 256
           [] k = 1 -> (w \div 256) % 256
           [] k = 2 -> (w \div 65536) % 256
           [] k = 3 -> (w \div 16777216) % 256]

\* The query is the hex encoding of the entry's full identity: 64 hex digits
\* (either letter case) that spell the 32 bytes, after any "0x" prefixes.
IsHexOfIdentity(query, entry) ==
  \E k \in 0..(Len(query) \div 2) :
    /\ Len(query) = 2 * k + 2 * IdBytes
    /\ \A j \in 1..k : query[2 * j - 1] = "0" /\ query[2 * j] \in {"x", "X"}
    /\ \A i \in 1..IdBytes :
         LET hi == query[2 * k + 2 * i - 1]
             lo == query[2 * k + 2 * i]
         IN  /\ IsHexChar(hi) /\ IsHexChar(lo)
             /\ 16 * HexVal(hi) + HexVal(lo) = IdentityBytes(entry)[i]

Names(query, entry) ==
  SameIgnoringCase(query, entry.name) \/ IsHexOfIdentity(query, entry)

(***************************************************************************)
(* C11: a query that matches no registry entry, by name or by identity,    *)
(* fails with the unknown-program error before any backend is invoked: no  *)
(* local execution, no network request, nothing printed.                   *)
(***************************************************************************)
C11_UnknownProgramAborts ==
  (/\ binary = "methods" /\ pc # "start"
   /\ \A i \in DOMAIN registry : ~Names(guest_binary, registry[i])) =>
    /\ pc = "panicked"
    /\ exit = Panic(<<"Unknown guest binary">>)
    /\ guest_entry = << >>
    /\ backend = "none" /\ client = << >>
    /\ trace = << >>
    /\ NoOutput

C11_Witness ==
  /\ binary = "methods" /\ pc = "panicked"
  /\ guest_binary = <<"n","o","p","e">>
  /\ input_arg # << >> /\ HexDecode(SubSeq(input_arg[1], 3, Len(input_arg[1]))) # << >>
  /\ EnvVarIsOk(env_endpoint)
  /\ exit = Panic(<<"Unknown guest binary">>)

(***************************************************************************)
(* C12: the lookup is exact.  A query resolves to an entry only if it      *)
(* equals the entry's name, letter case aside (never as a substring or a   *)
(* prefix), or is the hex encoding of the entry's full 32-byte identity;   *)
(* and for every entry, its name in any letter case and its full hex       *)
(* identity both resolve to that entry.                                    *)
(***************************************************************************)
C12_ExactLookup ==
  (binary = "methods" /\ pc # "start") =>
    /\ guest_entry # << >> => Names(guest_binary, registry[guest_entry[1]])
    /\ \A i \in DOMAIN registry :
         Names(guest_binary, registry[i]) => guest_entry = << i >>

C12_Witness ==
  /\ binary = "methods" /\ pc = "done"
  /\ registry = GUEST_LIST_NESTED
  /\ guest_binary = <<"a","B">>
  /\ guest_entry = << 2 >>

(***************************************************************************)
(* C20: a query that does not hex-decode to exactly 32 bytes resolves only *)
(* through the name comparison, never through the identity comparison,     *)
(* whatever identities the registry holds, the all-zero identity included. *)
(***************************************************************************)
C20_NoIdentityMatchWithoutDigest ==
  LET d == HexDecode(TrimStart0x(ToLowercase(guest_binary)))
      is_digest == d # << >> /\ Len(d[1]) = IdBytes
  IN  (binary = "methods" /\ guest_entry # << >> /\ ~is_digest) =>
        SameIgnoringCase(guest_binary, registry[guest_entry[1]].name)

(***************************************************************************)
(* C19: when BONSAI_ENDPOINT is present as text that is not <url>|<key>    *)
(* (its number of '|'-separated parts is not two), building the client     *)
(* fails before any network request and the dispatcher ends with that      *)
(* error: it does not fall back to the local backend and prints nothing.   *)
(***************************************************************************)
C19_MalformedEndpointFails ==
  LET bars == { i \in DOMAIN env_endpoint.value : env_endpoint.value[i] = "|" }
  IN  (/\ binary = "methods" /\ backend # "none"
       /\ env_endpoint.state = "unicode" /\ Cardinality(bars) # 1) =>
        /\ backend = "remote"
        /\ client = << >>
        /\ trace = << >>
        /\ NoOutput
        /\ pc \in {"remote", "panicked"}
        /\ pc = "panicked" =>
             exit = Panic(<<"Failed to run proof with bonsai",
                            "Failed to initialize bonsai from env vars">>)

C19_Witness ==
  /\ binary = "methods" /\ pc = "panicked"
  /\ env_endpoint = EnvSet(<<"u","|","k","|","z">>)
  /\ backend = "remote"
  /\ input # << >>

(***************************************************************************)
(* C14: the polling loop has no maximum poll count and no deadline.  While *)
(* every status answer is RUNNING the client is never in a terminal state: *)
(* it sleeps and, after k answers, asks a (k+1)-th time.  Conversely, once *)
(* a status query is answered otherwise (another status, or an error), the *)
(* run reaches a terminal state.                                           *)
(***************************************************************************)
Terminal == pc \in {"done", "panicked"}

AllRunning ==
  /\ binary = "methods" /\ session # << >>
  /\ \A i \in DOMAIN StatusQueries : Answered(StatusQueries[i], "RUNNING")

AnsweredNotRunning ==
  /\ binary = "methods"
  /\ \E i \in DOMAIN StatusQueries : ~Answered(StatusQueries[i], "RUNNING")

C14_PollsUntilAnswered ==
  /\ [](AllRunning => pc \in {"poll", "sleep"})
  /\ \A k \in 0..(MaxPolls - 1) :
       (AllRunning /\ Len(StatusQueries) = k) ~>
         (Len(StatusQueries) = k + 1 \/ ~AllRunning)
  /\ AnsweredNotRunning ~> Terminal

C14_Witness ==
  /\ AllRunning
  /\ Len(StatusQueries) = MaxPolls
  /\ Count(IsSleep) = MaxPolls
  /\ pc = "poll"

(***************************************************************************)
(* C13: once an error is raised in a run, no output has been or will be    *)
(* printed to stdout: output is printed only in runs that end without      *)
(* error.                                                                  *)
(***************************************************************************)
C13_NoOutputOnError ==
  exit.kind = "panic" => stdout = << >>

(***************************************************************************)
(* What the supplied records say, read off the records themselves.         *)
(***************************************************************************)
AllRecordsAreHeaders ==
  \A k \in DOMAIN supplied.records : Len(supplied.records[k]) = HeaderLen

\* Every record meets its target and keeps the first record's target, and every
\* record after the first carries the digest of the record before it.
SuppliedChainIsValid ==
  LET recs == supplied.records
  IN  \A k \in DOMAIN recs :
        /\ Digest(recs[k])[IdBytes] <= recs[k][75]
        /\ SubSeq(recs[k], 73, 76) = SubSeq(recs[1], 73, 76)
        /\ k > 1 => SubSeq(recs[k], 5, 36) = Digest(recs[k - 1])

\* The bytes of the vector the journal holds: one word per byte after the
\* length word.
JournalVector(journal_bytes) ==
  [i \in 1..((Len(journal_bytes) \div 4) - 1) |-> journal_bytes[4 * i + 1]]

(***************************************************************************)
(* C15: the guest commits only after the header chain validation (with     *)
(* difficulty enforced) has succeeded on the whole sequence; what it       *)
(* commits is the supplied height, unchanged, and the hash of the last     *)
(* header; if validation fails, nothing is committed.                      *)
(***************************************************************************)
C15_CommitOnlyValidated ==
  AllRecordsAreHeaders =>
    /\ guest_journal # << >> =>
         LET recs == supplied.records
             ret == JournalVector(guest_journal[1])
         IN  /\ recs # << >> /\ SuppliedChainIsValid
             /\ guest_exit = ExitOk
             /\ Len(ret) = 2 * IdBytes
             /\ \A i \in 1..24 : ret[i] = 0
             /\ \A i \in 1..8 : ret[24 + i] = supplied.height[9 - i]
             /\ SubSeq(ret, IdBytes + 1, 2 * IdBytes) = Digest(recs[Len(recs)])
    /\ (guest_data # << >> /\ ~SuppliedChainIsValid) =>
         /\ guest_journal = << >>
         /\ pc # "guest_commit"
         /\ pc # "guest_validate" => guest_exit = Panic(<<"validate_header_chain">>)

C15_Witness ==
  /\ binary = "guest"
  /\ guest_journal # << >>
  /\ Len(supplied.records) = MaxChain /\ AllRecordsAreHeaders
  /\ supplied.height = <<1, 2, 3, 4, 5, 6, 7, 8>>

(***************************************************************************)
(* C16: end to end, for a supplied height h and a valid linked chain, the  *)
(* (u64, 32-byte hash) the host decodes from the journal equals (h, hash   *)
(* of the last header): the guest's encoding and the host's decoding       *)
(* agree.                                                                  *)
(***************************************************************************)
C16_DecodedIsCommitted ==
  (/\ binary = "guest" /\ pc \in {"decoded", "panicked"}
   /\ guest_journal # << >> /\ AllRecordsAreHeaders /\ SuppliedChainIsValid) =>
    /\ decoded # << >>
    /\ decoded[1].height = supplied.height
    /\ decoded[1].hash = Digest(supplied.records[Len(supplied.records)])

(***************************************************************************)
(* C17: packaging round trip.  For any height and any N header records of  *)
(* 80 bytes, the buffer the host packages is unpacked by the guest into    *)
(* the same height and the same N headers in the same order, header i      *)
(* byte for byte the i-th record.                                          *)
(***************************************************************************)
C17_PackagingRoundTrip ==
  (AllRecordsAreHeaders /\ env_input # << >> /\ pc # "guest_read") =>
    /\ guest_data # << >>
    /\ guest_data[1].height = supplied.height
    /\ Len(guest_data[1].bytes) = HeaderLen * Len(supplied.records)
    /\ \A i \in DOMAIN supplied.records :
         SubSeq(guest_data[1].bytes, HeaderLen * (i - 1) + 1, HeaderLen * i)
           = supplied.records[i]

C17_Witness ==
  /\ binary = "guest"
  /\ guest_data # << >>
  /\ Len(supplied.records) = MaxChain /\ AllRecordsAreHeaders
  /\ supplied.height = <<1, 2, 3, 4, 5, 6, 7, 8>>
  /\ guest_data[1].height = <<1, 2, 3, 4, 5, 6, 7, 8>>

(***************************************************************************)
(* C18: the input packager fails with a malformed-input error whenever a   *)
(* header record is not exactly 80 bytes long (shorter or longer), before  *)
(* anything is packaged or handed to the prover; records of exactly 80     *)
(* bytes are never rejected.                                               *)
(***************************************************************************)
C18_MalformedRecordRejected ==
  binary = "apps" =>
    \A i \in DOMAIN trace :
      (trace[i].what = "get_block_hex" /\ trace[i].ret # << >>) =>
        IF trace[i].ret[1] # HeaderLen
          THEN /\ pc = "panicked"
               /\ env_input = << >>
               /\ \A j \in DOMAIN trace : trace[j].op # "PROVE"
          ELSE pc = "panicked" => i < Len(trace)

====
